---- MODULE Spec2Model ----
(***************************************************************************)
(* A model of src/main.py: the SolverVisitor that walks the abstract       *)
(* syntax tree of one Python function definition and builds the symbolic   *)
(* environment, the parameter constants, the return constant and the       *)
(* function symbol, together with the annotation resolver                  *)
(* pytype_to_z3type.                                                       *)
(*                                                                         *)
(* Python's call stack is the variable `stack`: the nodes still to be      *)
(* visited, innermost first, and the assignments waiting for the visit of  *)
(* their right-hand side to return.  One action is one visitor method      *)
(* applied to the node on top of the stack.  An exception is caught by     *)
(* nobody: it empties the stack and leaves every field of the visitor as   *)
(* it is at the raise.                                                     *)
(***************************************************************************)
EXTENDS Naturals, Sequences, FiniteSets, TLC

(***************************************************************************)
(* Bounds of the model.                                                    *)
(***************************************************************************)
\* the longest parameter list of an encoded function
MaxParams == 2
\* the longest statement list of an encoded function's body
MaxBody == 2
\* the deepest nesting of a statement inside conditionals
MaxDepth == 2

\* the width of every bit-vector constant, z3.BitVec(..., 64)
BitWidth == 64

(***************************************************************************)
(* Values.  Every value is a record with a field `kind`.                   *)
(***************************************************************************)
\* Python's None
NoneVal == [kind |-> "None"]

\* z3.BitVec(name, bits): a z3 constant is the term of its name and sort, so
\* two calls with the same name and width give the same constant.  A name is
\* the tuple of the pieces of its f-string.
BitVec(name, bits) == [kind |-> "BitVec", name |-> name, bits |-> bits]

\* z3.Function(name, *sorts): an uninterpreted function symbol
Function(name, sorts) == [kind |-> "FuncDecl", name |-> name, sorts |-> sorts]

\* z3.BitVecSort(bits)
BitVecSort(bits) == [kind |-> "BitVecSort", bits |-> bits]

\* the constructors of the datatype Z3PyValue
Z3PyType(ctor) == [kind |-> "Z3PyType", ctor |-> ctor]

\* an exception in flight, and none
Exc(type, msg) == [type |-> type, msg |-> msg]
NoExc == Exc("none", "")

(***************************************************************************)
(* Abstract syntax trees (module ast): records with the node class in      *)
(* `kind` and the node's fields.                                           *)
(***************************************************************************)
Name(id) == [kind |-> "Name", id |-> id]
Constant(value) == [kind |-> "Constant", value |-> value]
Add == [kind |-> "Add"]
BinOp(left, right) == [kind |-> "BinOp", left |-> left, op |-> Add, right |-> right]
Tuple == [kind |-> "Tuple"]
Pass == [kind |-> "Pass"]
Subscript(value, slice) == [kind |-> "Subscript", value |-> value, slice |-> slice]
Assign(targets, value) == [kind |-> "Assign", targets |-> targets, value |-> value]
Return(value) == [kind |-> "Return", value |-> value]
If(test, body, orelse) == [kind |-> "If", test |-> test, body |-> body, orelse |-> orelse]
arg(name, annotation) == [kind |-> "arg", arg |-> name, annotation |-> annotation]
FunctionDef(name, args, returns, body) ==
    [kind |-> "FunctionDef", name |-> name, args |-> args,
     returns |-> returns, body |-> body]

(***************************************************************************)
(* The functions given to the encoder: what ast.parse makes of a function  *)
(* definition (it accepts a repeated parameter name; `None` parses to a    *)
(* Constant, a type name to a Name).                                       *)
(***************************************************************************)
Names == {"x", "y"}

SeqsUpTo(S, n) == UNION {[1..k -> S] : k \in 0..n}

\* the parameter names of a signature
ParamLists == SeqsUpTo(Names, MaxParams)

\* the annotations of a signature: one for every parameter, one for the result
\*   (x: int) -> int, (x: int) -> List[int], (x: float) -> None
AnnChoices ==
    { [param |-> Name("int"), returns |-> Name("int")],
      [param |-> Name("int"), returns |-> Subscript(Name("List"), Name("int"))],
      [param |-> Name("float"), returns |-> Constant("None")] }

\* def g(): pass   inside the body of the encoded function
NestedDef == FunctionDef("g", <<>>, NoneVal, <<Pass>>)

\* statements that are not compound
SimpleStatements ==
    { Assign(<<Name("x")>>, Constant("1")),                      \* x = 1
      Assign(<<Name("y")>>, BinOp(Name("x"), Name("y"))),        \* y = x + y
      Assign(<<Name("x"), Name("y")>>, Constant("1")),           \* x = y = 1
      Assign(<<Tuple>>, Name("y")),                              \* (a, b) = y
      Assign(<<Name("y"), Tuple>>, Constant("1")),               \* y = (a, b) = 1
      Return(BinOp(Name("x"), Name("y"))),                       \* return x + y
      Return(Name("y")),                                         \* return y
      NestedDef,                                                 \* def g(): pass
      Pass }                                                     \* pass

\* the statements put inside conditionals
InnerStatements == { NestedDef, Assign(<<Name("y")>>, Constant("1")) }

\* if x: <s> else: return y     nested d deep
RECURSIVE Nested(_)
Nested(d) ==
    IF d = 0 THEN InnerStatements
    ELSE { If(Name("x"), <<s>>, <<Return(Name("y"))>>) : s \in Nested(d - 1) }

Statements == SimpleStatements \cup UNION { Nested(d) : d \in 1..MaxDepth }

\* a body holds at least one statement
Bodies == SeqsUpTo(Statements, MaxBody) \ {<<>>}

Functions ==
    { FunctionDef("f", [i \in 1..Len(p) |-> arg(p[i], a.param)], a.returns, b) :
        p \in ParamLists, a \in AnnChoices, b \in Bodies }

(***************************************************************************)
(* pytype_to_z3type: the Z3PyType of an annotation, or the exception       *)
(* raised.                                                                 *)
(***************************************************************************)
Returned(val) == [exc |-> NoExc, val |-> val]
Raised(e) == [exc |-> e, val |-> NoneVal]

pytype_to_z3type(pytype) ==
    IF pytype.kind = "Name" THEN
        CASE pytype.id = "int" -> Returned(Z3PyType("int"))
          [] pytype.id = "str" -> Returned(Z3PyType("str"))
          [] pytype.id = "bool" -> Returned(Z3PyType("bool"))
          [] pytype.id = "list" ->
                Raised(Exc("NotImplementedError", "list type without arg not implemented"))
          [] pytype.id = "None" -> Returned(Z3PyType("none"))
          [] OTHER -> Raised(Exc("NotImplementedError", "Unimplemented type"))
    ELSE IF pytype.kind = "Subscript" THEN
        IF pytype.value.kind = "Name" /\ pytype.value.id = "List"
        THEN Raised(Exc("NotImplementedError", "list type not yet implemented"))
        ELSE Raised(Exc("NotImplementedError", "Unimplemented subscript type"))
    ELSE Raised(Exc("ValueError", "The given AST node is not a type annotation"))

(***************************************************************************)
(* The state: the fields of one SolverVisitor, the function it is given    *)
(* and where the walk stands.                                              *)
(***************************************************************************)
VARIABLES
    fn,        \* the function definition handed to visit
    solver,    \* self.solver: its timeout and the constraints asserted
    fundecl,   \* self.fundecl
    z3_args,   \* self.z3_args
    z3_ret,    \* self.z3_ret
    z3_func,   \* self.z3_func
    env,       \* self.env: variable name -> value
    stack,     \* the calls in progress, innermost first
    status,    \* "running", "done" (visit returned), "raised" (an exception left visit)
    exc,       \* the exception that left visit
    tres,      \* the outcome of the last pytype_to_z3type call
    prev       \* the outputs of the SolverVisitor run before this one

vars == <<fn, solver, fundecl, z3_args, z3_ret, z3_func, env, stack, status, exc,
          tres, prev>>

\* the solver's time budget in milliseconds
SolverTimeout == 1000

\* a call of visit on a node, waiting to run
VisitItem(node) == [op |-> "visit", node |-> node, i |-> 0]
\* visit_Assign waiting for self.visit(node.value) to return, to store into target i
StoreItem(node, i) == [op |-> "store", node |-> node, i |-> i]

VisitItems(nodes) == [k \in 1..Len(nodes) |-> VisitItem(nodes[k])]

\* SolverVisitor.__init__, then the call visit(f)
SolverVisitor(f) ==
    /\ fn = f
    /\ solver = [timeout |-> SolverTimeout, assertions |-> <<>>]
    /\ fundecl = NoneVal
    /\ z3_args = <<>>
    /\ z3_ret = NoneVal
    /\ z3_func = NoneVal
    /\ env = [n \in {} |-> NoneVal]
    /\ stack = <<VisitItem(f)>>
    /\ status = "running"
    /\ exc = NoExc
    /\ tres = NoneVal

Init == \E f \in Functions : SolverVisitor(f) /\ prev = NoneVal

\* what SolverVisitor.visit returns, whatever the visitor method returned
visit_result == NoneVal

\* an exception leaves visit: no handler anywhere, every frame is dropped
Raise(e) ==
    /\ stack' = <<>>
    /\ status' = "raised"
    /\ exc' = e

\* the method returns and the walk goes on with `rest`
Continue(rest) ==
    /\ stack' = rest
    /\ status' = IF rest = <<>> THEN "done" ELSE "running"
    /\ exc' = exc

\* the node on top of the stack is to be visited and has class `kind`
AtNode(kind) ==
    /\ status = "running"
    /\ stack # <<>>
    /\ Head(stack).op = "visit"
    /\ Head(stack).node.kind = kind

\* the fields of the visitor that the walk itself leaves alone
UNCHANGED_io == UNCHANGED <<fn, solver, tres, prev>>

\* self.env[name] = value
Bind(e, name, value) ==
    [n \in DOMAIN e \cup {name} |-> IF n = name THEN value ELSE e[n]]

\* the constant of a parameter: z3.BitVec(f"__arg_{arg.arg}", 64)
ArgConst(a) == BitVec(<<"__arg_", a.arg>>, BitWidth)

\* the loop over the parameters putting each constant at the front of z3_args
RECURSIVE ArgLoopPrepend(_, _, _)
ArgLoopPrepend(args, i, acc) ==
    IF i > Len(args) THEN acc
    ELSE ArgLoopPrepend(args, i + 1,
                        [z3_args |-> <<BitVec(<<"__arg_", args[i].arg>>, BitWidth)>> \o acc.z3_args,
                         env |-> Bind(acc.env, args[i].arg,
                                      BitVec(<<"__arg_", args[i].arg>>, BitWidth))])

\* the loop over node.args.args, from parameter i on: one constant per
\* parameter, appended to z3_args and bound to the parameter's name
RECURSIVE ArgLoop(_, _, _)
ArgLoop(args, i, acc) ==
    IF i > Len(args) THEN acc
    ELSE ArgLoop(args, i + 1,
                 [z3_args |-> Append(acc.z3_args, ArgConst(args[i])),
                  env |-> Bind(acc.env, args[i].arg, ArgConst(args[i]))])

\* the children in fields that hold one node, those in statement lists left out
ChildrenOfNodeFields(node) ==
    CASE node.kind = "BinOp" -> <<node.left, node.op, node.right>>
      [] node.kind = "Return" -> IF node.value = NoneVal THEN <<>> ELSE <<node.value>>
      [] node.kind = "If" -> <<node.test>>
      [] OTHER -> <<>>

\* ast.iter_fields: the child nodes NodeVisitor.generic_visit visits, in order
Children(node) ==
    CASE node.kind = "BinOp" -> <<node.left, node.op, node.right>>
      [] node.kind = "Return" -> IF node.value = NoneVal THEN <<>> ELSE <<node.value>>
      [] node.kind = "If" -> <<node.test>> \o node.body \o node.orelse
      [] OTHER -> <<>>

(***************************************************************************)
(* The visitor methods.                                                    *)
(***************************************************************************)
\* visit_FunctionDef: of the function given to visit, and of a definition met
\* in a body
visit_FunctionDef ==
    /\ AtNode("FunctionDef")
    /\ LET node == Head(stack).node
           loop == ArgLoop(node.args, 1, [z3_args |-> z3_args, env |-> env])
       IN  IF fundecl # NoneVal
           THEN /\ Raise(Exc("ValueError", "Only one function declaration is allowed"))
                /\ UNCHANGED <<fundecl, z3_args, z3_ret, z3_func, env>>
           ELSE /\ fundecl' = node
                /\ z3_args' = loop.z3_args
                /\ env' = loop.env
                /\ z3_ret' = BitVec(<<"__ret">>, BitWidth)
                /\ z3_func' = Function(node.name,
                                       [k \in 1..(Len(loop.z3_args) + 1) |-> BitVecSort(BitWidth)])
                /\ Continue(VisitItems(node.body) \o Tail(stack))
    /\ UNCHANGED_io

\* the loop of visit_Assign at target i: past the last target the method
\* returns; a Name target has the value visited, the store waiting behind it;
\* any other target raises
AssignLoop(node, i, rest) ==
    IF i > Len(node.targets) THEN Continue(rest)
    ELSE IF node.targets[i].kind = "Name"
         THEN Continue(<<VisitItem(node.value), StoreItem(node, i)>> \o rest)
         ELSE Raise(Exc("NotImplementedError", "Unimplemented assignment target"))

\* visit_Assign is entered
visit_Assign ==
    /\ AtNode("Assign")
    /\ AssignLoop(Head(stack).node, 1, Tail(stack))
    /\ UNCHANGED <<fundecl, z3_args, z3_ret, z3_func, env>>
    /\ UNCHANGED_io

\* self.visit(node.value) has returned inside visit_Assign: the store into
\* self.env, then the next target
visit_Assign_store ==
    /\ status = "running"
    /\ stack # <<>>
    /\ Head(stack).op = "store"
    /\ LET node == Head(stack).node
           i == Head(stack).i
       IN  /\ env' = Bind(env, node.targets[i].id, visit_result)
           /\ AssignLoop(node, i + 1, Tail(stack))
    /\ UNCHANGED <<fundecl, z3_args, z3_ret, z3_func>>
    /\ UNCHANGED_io

\* visit_Name giving None for a name without entry, as self.env.get would
visit_Name_get ==
    /\ AtNode("Name")
    /\ Continue(Tail(stack))
    /\ UNCHANGED <<fundecl, z3_args, z3_ret, z3_func, env>>
    /\ UNCHANGED_io

\* visit_Name
visit_Name ==
    /\ AtNode("Name")
    /\ IF Head(stack).node.id \in DOMAIN env
       THEN Continue(Tail(stack))
       ELSE Raise(Exc("ValueError", "Undefined variable"))
    /\ UNCHANGED <<fundecl, z3_args, z3_ret, z3_func, env>>
    /\ UNCHANGED_io

\* visit_BinOp: prints, then generic_visit
visit_BinOp ==
    /\ AtNode("BinOp")
    /\ Continue(VisitItems(Children(Head(stack).node)) \o Tail(stack))
    /\ UNCHANGED <<fundecl, z3_args, z3_ret, z3_func, env>>
    /\ UNCHANGED_io

\* visit_Return: prints, then generic_visit
visit_Return ==
    /\ AtNode("Return")
    /\ Continue(VisitItems(Children(Head(stack).node)) \o Tail(stack))
    /\ UNCHANGED <<fundecl, z3_args, z3_ret, z3_func, env>>
    /\ UNCHANGED_io

\* the node classes with a visit_<class> method
Handled == {"FunctionDef", "Assign", "Name", "BinOp", "Return"}

\* generic_visit: of every node whose class has no method (If, Constant, Add, Pass)
generic_visit ==
    /\ status = "running"
    /\ stack # <<>>
    /\ Head(stack).op = "visit"
    /\ Head(stack).node.kind \notin Handled
    /\ Continue(VisitItems(Children(Head(stack).node)) \o Tail(stack))
    /\ UNCHANGED <<fundecl, z3_args, z3_ret, z3_func, env>>
    /\ UNCHANGED_io

\* the annotations of the function given: of its parameters, and of its result
Annotations(f) == {f.args[k].annotation : k \in 1..Len(f.args)} \cup {f.returns}

\* the caller resolves an annotation of the function with pytype_to_z3type,
\* which the visitor itself never calls
ResolveType ==
    /\ status \in {"done", "raised"}
    /\ \E a \in Annotations(fn) : tres' = pytype_to_z3type(a)
    /\ UNCHANGED <<fn, solver, fundecl, z3_args, z3_ret, z3_func, env, stack, status,
                   exc, prev>>

Next ==
    \/ visit_FunctionDef
    \/ visit_Assign
    \/ visit_Assign_store
    \/ visit_Name
    \/ visit_BinOp
    \/ visit_Return
    \/ generic_visit
    \/ ResolveType

Spec == Init /\ [][Next]_vars

(***************************************************************************)
(* Several encodings, one after the other: each is a SolverVisitor of its  *)
(* own; the caller keeps the outputs of the one before.                    *)
(***************************************************************************)
\* the functions encoded one after the other
RunFunctions ==
    { f \in Functions : Len(f.body) = 1 /\ Annotations(f) \subseteq {Name("int")} }

InitRuns == \E f \in RunFunctions : SolverVisitor(f) /\ prev = NoneVal

\* the encoding is over; the caller keeps its outputs and encodes another
\* function with a new SolverVisitor
NewEncoding ==
    /\ status \in {"done", "raised"}
    /\ prev' = [z3_args |-> z3_args, z3_ret |-> z3_ret, z3_func |-> z3_func]
    /\ \E f \in RunFunctions :
          /\ fn' = f
          /\ solver' = [timeout |-> SolverTimeout, assertions |-> <<>>]
          /\ fundecl' = NoneVal
          /\ z3_args' = <<>>
          /\ z3_ret' = NoneVal
          /\ z3_func' = NoneVal
          /\ env' = [n \in {} |-> NoneVal]
          /\ stack' = <<VisitItem(f)>>
          /\ status' = "running"
          /\ exc' = NoExc
          /\ tres' = NoneVal

NextRuns ==
    \/ visit_FunctionDef
    \/ visit_Assign
    \/ visit_Assign_store
    \/ visit_Name
    \/ visit_BinOp
    \/ visit_Return
    \/ generic_visit
    \/ ResolveType
    \/ NewEncoding

SpecRuns == InitRuns /\ [][NextRuns]_vars

(***************************************************************************)
(* Vocabulary of the properties.                                           *)
(***************************************************************************)
Range(q) == {q[k] : k \in 1..Len(q)}

\* the encoding is over
Finished == status \in {"done", "raised"}

\* the error kinds of the design, as the exceptions of the code
UndefinedVariable == Exc("ValueError", "Undefined variable")
OnlyOneFunction == Exc("ValueError", "Only one function declaration is allowed")
BadAssignTarget == Exc("NotImplementedError", "Unimplemented assignment target")
UnsupportedConstruct == {OnlyOneFunction, BadAssignTarget}
UnsupportedType ==
    { Exc("NotImplementedError", "Unimplemented type"),
      Exc("NotImplementedError", "list type without arg not implemented"),
      Exc("NotImplementedError", "list type not yet implemented"),
      Exc("NotImplementedError", "Unimplemented subscript type") }

\* the parameter names of a function
ParamNames(f) == {f.args[k].arg : k \in 1..Len(f.args)}

\* the closed type set: int, str, bool, None, List[X] with X in the set
RECURSIVE InClosedSet(_)
InClosedSet(a) ==
    \/ a.kind = "Name" /\ a.id \in {"int", "str", "bool", "None"}
    \/ a.kind = "Constant" /\ a.value = "None"
    \/ a.kind = "Subscript" /\ a.value = Name("List") /\ InClosedSet(a.slice)

\* a statement is, or holds at some depth, a statement of class `kind`
RECURSIVE Holds(_, _)
Holds(stmt, kind) ==
    \/ stmt.kind = kind
    \/ /\ stmt.kind = "If"
       /\ \E s \in Range(stmt.body) \cup Range(stmt.orelse) : Holds(s, kind)

\* the names of the targets visit_Assign stores into: those before the first
\* target that is no Name
RECURSIVE NameTargets(_)
NameTargets(targets) ==
    IF targets = <<>> \/ Head(targets).kind # "Name" THEN <<>>
    ELSE <<Head(targets).id>> \o NameTargets(Tail(targets))

\* the names the Assign statements of a statement list store into, in textual
\* order
RECURSIVE AssignedNames(_)
AssignedNames(stmts) ==
    IF stmts = <<>> THEN <<>>
    ELSE LET s == Head(stmts)
             here == CASE s.kind = "Assign" -> NameTargets(s.targets)
                       [] s.kind = "If" -> AssignedNames(s.body \o s.orelse)
                       [] OTHER -> <<>>
         IN  here \o AssignedNames(Tail(stmts))

\* the names still to be stored into by the calls on the stack
RECURSIVE PendingNames(_)
PendingNames(st) ==
    IF st = <<>> THEN <<>>
    ELSE LET it == Head(st)
             here == IF it.op = "store"
                     THEN NameTargets(SubSeq(it.node.targets, it.i, Len(it.node.targets)))
                     ELSE AssignedNames(<<it.node>>)
         IN  here \o PendingNames(Tail(st))

\* the targets of the assignments textually before the point the walk is at
EarlierTargets ==
    LET all == AssignedNames(fn.body)
    IN  Range(SubSeq(all, 1, Len(all) - Len(PendingNames(stack))))

(***************************************************************************)
(* C1.  A function whose body holds a branch (an if statement) before any  *)
(* return is never encoded to the end: visit does not return normally.     *)
(***************************************************************************)
BranchBeforeReturn(f) ==
    \E i \in 1..Len(f.body) :
        /\ f.body[i].kind = "If"
        /\ \A j \in 1..(i - 1) : f.body[j].kind # "Return"

C1_BranchNeverEncoded == BranchBeforeReturn(fn) => status # "done"

(***************************************************************************)
(* C2.  The encoding of a function with a parameter or return annotation   *)
(* outside the closed type set ends with the unsupported-type error: not   *)
(* with success and not with another error.                                *)
(***************************************************************************)
UnsupportedAnnotation(f) ==
    \E a \in Annotations(f) : a # NoneVal /\ ~InClosedSet(a)

C2_UnsupportedTypeRejected ==
    (UnsupportedAnnotation(fn) /\ Finished) =>
        (status = "raised" /\ exc \in UnsupportedType)

(***************************************************************************)
(* C3.  A reference to a name raises the undefined-variable error exactly  *)
(* when the name is neither a parameter nor the target of an assignment    *)
(* textually before the reference, which is exactly when it has no entry   *)
(* in the environment; a reference to a bound name raises nothing; and     *)
(* visit_Assign never raises that error for its own targets.               *)
(***************************************************************************)
C3_Step ==
    /\ AtNode("Name") =>
          LET id == Head(stack).node.id
              bound == id \in ParamNames(fn) \cup EarlierTargets
          IN  /\ bound <=> id \in DOMAIN env
              /\ bound => status' # "raised"
              /\ ~bound => (status' = "raised" /\ exc' = UndefinedVariable)
    /\ (AtNode("Assign") \/ (stack # <<>> /\ Head(stack).op = "store")) =>
          exc' # UndefinedVariable

SingleNameTarget(s) == Len(s.targets) = 1 /\ s.targets[1].kind = "Name"

C4_OnlySingleNameTarget ==
    status = "done" =>
        \A i \in 1..Len(fn.body) :
            fn.body[i].kind = "Assign" => SingleNameTarget(fn.body[i])

(***************************************************************************)
(* C5.  A function with a function definition in its body, at any depth,   *)
(* is never encoded to the end, and its encoding, once over, has ended     *)
(* with an exception.                                                      *)
(***************************************************************************)
NestedFunctionDef(f) == \E s \in Range(f.body) : Holds(s, "FunctionDef")

C5_NestedDefFails ==
    NestedFunctionDef(fn) =>
        /\ status # "done"
        /\ Finished => (status = "raised" /\ exc # NoExc)

\* the definition two conditionals deep was reached and refused
C5_Witness ==
    /\ status = "raised"
    /\ exc = OnlyOneFunction
    /\ Len(fn.body) = 1
    /\ fn.body[1].kind = "If"
    /\ fn.body[1].body[1].kind = "If"
    /\ fn.body[1].body[1].body[1].kind = "FunctionDef"

(***************************************************************************)
(* C6.  After an encoding that failed, the visitor is as before the call:  *)
(* no environment entry, no parameter constant, no return constant, no     *)
(* function declaration, no function symbol, no constraint.                *)
(***************************************************************************)
C6_FailureLeavesNothing ==
    status = "raised" =>
        /\ env = [n \in {} |-> NoneVal]
        /\ z3_args = <<>>
        /\ z3_ret = NoneVal
        /\ fundecl = NoneVal
        /\ z3_func = NoneVal
        /\ solver.assertions = <<>>

(***************************************************************************)
(* C7.  The constants of two encodings are distinct: no parameter constant *)
(* or return constant of the encoding before is one of this encoding.      *)
(***************************************************************************)
C7_ConstantsNotShared ==
    (prev # NoneVal /\ z3_ret # NoneVal) =>
        (Range(prev.z3_args) \cup {prev.z3_ret}) \cap (Range(z3_args) \cup {z3_ret}) = {}

(***************************************************************************)
(* C8.  Every name the environment binds is bound to a symbolic value,     *)
(* never to an absent one.                                                 *)
(***************************************************************************)
C8_BoundToSymbolicValue ==
    \A n \in DOMAIN env : env[n] # NoneVal

(***************************************************************************)
(* C9.  After the encoding of a function with a return statement has ended *)
(* normally, the solver holds a constraint.                                *)
(***************************************************************************)
C9_ReturnConstrained ==
    (status = "done" /\ \E s \in Range(fn.body) : Holds(s, "Return")) =>
        solver.assertions # <<>>

(***************************************************************************)
(* C10.  From the moment the parameters are processed, z3_args holds one   *)
(* constant per parameter, in signature order, parameters of different     *)
(* names having different constants; the step that processes them binds    *)
(* every parameter name to its constant and nothing else; and no later     *)
(* step changes z3_args, z3_ret or z3_func.                                *)
(***************************************************************************)
C10_Args ==
    fundecl # NoneVal =>
        /\ Len(z3_args) = Len(fn.args)
        /\ \A k \in 1..Len(fn.args) :
              z3_args[k] = [kind |-> "BitVec", name |-> <<"__arg_", fn.args[k].arg>>, bits |-> 64]
        /\ \A j, k \in 1..Len(fn.args) :
              fn.args[j].arg # fn.args[k].arg => z3_args[j] # z3_args[k]
        /\ z3_ret = [kind |-> "BitVec", name |-> <<"__ret">>, bits |-> 64]
        /\ z3_ret \notin Range(z3_args)
        /\ z3_func.name = fn.name
        /\ Len(z3_func.sorts) = Len(fn.args) + 1

C10_Step ==
    /\ (fundecl = NoneVal /\ fundecl' # NoneVal) =>
          /\ DOMAIN env' = ParamNames(fn)
          /\ \A k \in 1..Len(fn.args) :
                env'[fn.args[k].arg] =
                    [kind |-> "BitVec", name |-> <<"__arg_", fn.args[k].arg>>, bits |-> 64]
          /\ stack' = VisitItems(fn.body)
    /\ (fundecl # NoneVal /\ status = "running") =>
          UNCHANGED <<fundecl, z3_args, z3_ret, z3_func>>

====
